---- MODULE Spec2Model ----
(***************************************************************************)
(* qperf: a QUIC bulk-transfer benchmark.  The sender (serverMain) accepts *)
(* connections and, per connection, opens one unidirectional stream and    *)
(* writes the payload buffer `data' to it in a loop.  The receiver         *)
(* (clientMain) dials, accepts the stream, reads and discards, and prints  *)
(* "Received: n bytes in s seconds".                                       *)
(*                                                                         *)
(* src/qperf.go holds three revisions of the program and                   *)
(* src/unnamed/part_000 a fourth.  Two are modelled here:                  *)
(*   "duration"  src/qperf.go:1-223    endless write loop, stop code 0,    *)
(*                                     read deadline, cancellation check   *)
(*   "ratelimit" src/qperf.go:225-472  write loop capped by totalData,     *)
(*                                     receiver with a token bucket        *)
(* (the sender of part_000:140-202 is the sender of "ratelimit").          *)
(*                                                                         *)
(* Byte counts are scaled: DataLen stands for len(data) = 1<<16,           *)
(* readChunkSize for 8<<10 and totalData for 10<<30; as in the program,    *)
(* totalData is a whole number of payload buffers in the base setting.     *)
(***************************************************************************)
EXTENDS Integers, FiniteSets, Sequences, TLC

\* ------------------------------------------------------------------ bounds
\* len(data), scaled
DataLen == 2
\* readChunkSize, scaled
readChunkSize == 2
\* totalData, scaled
totalData == 2
\* "Error accepting connection" lines counted before the counter saturates
MaxAcceptErrs == 1
\* longest -b string
MaxLen == 3
\* ticks of the clock a limited receiver is followed for
MaxTime == 6
\* slowest limiter: ticks per token
MaxPeriod == 2
\* largest small byte count and duration (milliseconds) given to the report
MaxRepBytes == 8
MaxRepMillis == 8

\* The connections the listener sees.  The client of a connection in Receivers is
\* this program's clientMain; the client of any other connection completes the
\* handshake and then stalls: it never reads, closes or aborts.
Conns == {1, 2}
Receivers == {1}

\* Flow-control bound of a stream: a write that would exceed it blocks.
MaxStream == totalData + 2 * DataLen

Variants == {"duration", "ratelimit"}

\* ------------------------------------------------------------------ errors
NoErr == [type |-> "nil", code |-> 0]
AppErr(c) == [type |-> "ApplicationError", code |-> c]
StreamErr(c) == [type |-> "StreamError", code |-> c]
OtherErr == [type |-> "other", code |-> 0]

\* Errors s.Write can return.
WriteErrs == {AppErr(0), AppErr(1), StreamErr(0), OtherErr}

\* Errors s.Read can return besides nil.
ReadErrs == {"EOF", "timeout", "other"}

VARIABLES
    variant,        \* the revision both peers run
    srvPc,          \* the -s process: "start", "accept", "exited" (in serverMain)
    ctxDone,        \* the sender's ctx is cancelled
    acceptErrs,     \* "Error accepting connection" lines logged
    connQ,          \* listener's view of connection c: "none", "queued", "accepted"
    sPc,            \* handler goroutine of c: "none", "open", "write", "ended"
    nBytes,         \* handler's nBytes
    sWhy,           \* why the handler ended: "none", "open", "write", "cap"
    sErr,           \* the error that ended it (NoErr if none)
    sErrLogs,       \* glog.Errorf lines of the handler
    streamOpen,     \* the sender opened the unidirectional stream of c
    streamBytes,    \* bytes the sender actually put on the stream of c
    fin,            \* the sender closed the stream (s.Close)
    stopSending,    \* the receiver cancelled reading (s.CancelRead(0))
    connClosed,     \* the receiver closed the connection (CloseWithError(0))
    rPc,            \* clientMain of c
    rStream,        \* the receiver holds a stream (s != nil)
    n,              \* clientMain's n
    deadline,       \* read deadline of the stream: "unset", "set", "passed"
    rExit,          \* how clientMain left its loop (or "parse": never got there):
                    \* "none", "eof", "timeout", "cancel", "error", "parse"
    rErrLogs,       \* error lines logged by the receiver's read loop
    results,        \* "Received: ..." lines printed
    reported,       \* the byte count of the printed line
    opened,         \* streams the handler of c got from conn.OpenUniStreamSync
    accepted,       \* streams clientMain got from conn.AcceptUniStream
    exitTrace,      \* what the handler's deferred calls did, in order
    loggedTotal,    \* the count in the handler's "Wrote %d bytes" line (-1: none)
    dataFills,      \* times io.ReadFull(rf, data[:]) has written the payload buffer
    lastArgLen,     \* len of the slice the handler's last s.Write got (0: no Write yet)
    dLimit,         \* *dLimit, the -b string given to limiterFromString
    parsePc,        \* calls of limiterFromString(*dLimit) made: "none", "once", "twice"
    userLimiter,    \* what the first call returned
    userLimiter2,   \* what the second call returned
    lPc,            \* limited read loop: "setup", "waitN", "sleep", "read", "done", "exited"
    limiter,        \* clientMain's limiter
    credit,         \* the limiter's tokens, in ticks' worth (tokens * period)
    last,           \* the limiter's last update
    now,            \* ticks since start := time.Now()
    wakeAt,         \* when the sleeping WaitN returns
    lN,             \* clientMain's n in the limited read loop
    lExit,          \* why the loop was left: "none", "eof", "ctx", "burst"
    repN,           \* n at the report
    repDur,         \* dur at the report, in milliseconds
    repPc,          \* "compute", "printed", "panicked"
    repRate         \* the rate of the "Received: ..." line

srvVars == <<srvPc, ctxDone, acceptErrs>>
sessVars == <<sPc, nBytes, sWhy, sErr, sErrLogs>>
wireVars == <<streamOpen, streamBytes, fin, stopSending, connClosed>>
recvVars == <<rPc, rStream, n, deadline, rExit, rErrLogs, results, reported>>
bufVars == <<dataFills, lastArgLen>>
auditVars == <<opened, accepted, exitTrace, loggedTotal, bufVars>>
mainVars == <<variant, srvVars, connQ, sessVars, wireVars, recvVars, auditVars>>
parseVars == <<dLimit, parsePc, userLimiter, userLimiter2>>
limVars == <<lPc, limiter, credit, last, now, wakeAt, lN, lExit>>
repVars == <<repN, repDur, repPc, repRate>>
auxVars == <<parseVars, limVars, repVars>>
vars == <<mainVars, auxVars>>

\* Nothing has been parsed.
ParseIdle ==
    /\ parsePc = "none"
    /\ userLimiter = [lim |-> [nil |-> TRUE], err |-> FALSE]
    /\ userLimiter2 = [lim |-> [nil |-> TRUE], err |-> FALSE]

\* clientMain has not built its limiter.
LimIdle ==
    /\ lPc = "setup"
    /\ limiter = [limit |-> [inf |-> TRUE], burst |-> 0]
    /\ credit = 0
    /\ last = 0
    /\ now = 0
    /\ wakeAt = 0
    /\ lN = 0
    /\ lExit = "none"

\* The report has not been computed.
RepIdle ==
    /\ repPc = "compute"
    /\ repRate = [kind |-> "none"]

\* The functions checked on their own are not running.
AuxIdle ==
    /\ dLimit = <<>>
    /\ ParseIdle
    /\ LimIdle
    /\ repN = 0 /\ repDur = 0 /\ RepIdle

\* The state of both processes at the start of main.
ProgramStart ==
    /\ srvPc = "start"
    /\ ctxDone = FALSE
    /\ acceptErrs = 0
    /\ connQ = [c \in Conns |-> "none"]
    /\ sPc = [c \in Conns |-> "none"]
    /\ nBytes = [c \in Conns |-> 0]
    /\ sWhy = [c \in Conns |-> "none"]
    /\ sErr = [c \in Conns |-> NoErr]
    /\ sErrLogs = [c \in Conns |-> 0]
    /\ streamOpen = [c \in Conns |-> FALSE]
    /\ streamBytes = [c \in Conns |-> 0]
    /\ fin = [c \in Conns |-> FALSE]
    /\ stopSending = [c \in Conns |-> FALSE]
    /\ connClosed = [c \in Conns |-> FALSE]
    /\ rPc = [c \in Conns |-> "start"]
    /\ rStream = [c \in Conns |-> FALSE]
    /\ n = [c \in Conns |-> 0]
    /\ deadline = [c \in Conns |-> "unset"]
    /\ rExit = [c \in Conns |-> "none"]
    /\ rErrLogs = [c \in Conns |-> 0]
    /\ results = [c \in Conns |-> 0]
    /\ reported = [c \in Conns |-> 0]
    /\ opened = [c \in Conns |-> 0]
    /\ accepted = [c \in Conns |-> 0]
    /\ exitTrace = [c \in Conns |-> <<>>]
    /\ loggedTotal = [c \in Conns |-> -1]
    /\ dataFills = 0
    /\ lastArgLen = [c \in Conns |-> 0]

Init ==
    /\ variant \in Variants
    /\ ProgramStart
    /\ AuxIdle

\* ================================================================ sender

\* serverMain up to the accept loop: fill data from /dev/urandom, load the key
\* pair, listen.  Each failure is glog.Exitf.
SrvStart ==
    /\ srvPc = "start"
    /\ \E ok, filled \in BOOLEAN :
        /\ ok => filled
        /\ srvPc' = IF ok THEN "accept" ELSE "exited"
        /\ dataFills' = IF filled THEN dataFills + 1 ELSE dataFills
    /\ UNCHANGED <<variant, auxVars, opened, accepted, exitTrace, loggedTotal, lastArgLen, ctxDone, acceptErrs, connQ, sessVars, wireVars, recvVars>>

\* The caller of serverMain cancels ctx.
SrvCancel ==
    /\ srvPc = "accept"
    /\ ~ctxDone
    /\ ctxDone' = TRUE
    /\ UNCHANGED <<variant, auxVars, auditVars, srvPc, acceptErrs, connQ, sessVars, wireVars, recvVars>>

\* The accept loop is at l.Accept: handlers run in their own goroutines
\* (`go func(conn)'), so the loop is back at l.Accept at once.
AcceptReadyInline == srvPc = "accept" /\ \A d \in Conns : sPc[d] \notin {"open", "write"}
AcceptReady == srvPc = "accept"

\* l.Accept returns a connection; go func(conn) starts its handler.
SrvAccept(c) ==
    /\ AcceptReady
    /\ connQ[c] = "queued"
    /\ connQ' = [connQ EXCEPT ![c] = "accepted"]
    /\ sPc' = [sPc EXCEPT ![c] = "open"]
    /\ UNCHANGED <<variant, auxVars, auditVars, srvVars, nBytes, sWhy, sErr, sErrLogs, wireVars, recvVars>>

\* Where serverMain is after l.Accept returned an error: `continue', so back at
\* l.Accept.  The loop has no break and no return, so serverMain never returns
\* to main, whose next statement is clientMain(context.Background()).
AfterAcceptErrReturn == "clientMain"
AfterAcceptErr == "accept"

\* l.Accept returns an error (ctx is done): log it and continue.
SrvAcceptErr ==
    /\ AcceptReady
    /\ ctxDone
    /\ acceptErrs < MaxAcceptErrs
    /\ acceptErrs' = acceptErrs + 1
    /\ srvPc' = AfterAcceptErr
    /\ UNCHANGED <<variant, auxVars, auditVars, ctxDone, connQ, sessVars, wireVars, recvVars>>

\* ------------------------------------------------------ handler goroutine

\* glog.Exitf ends the whole process, goroutines included.
SrvAlive == srvPc # "exited"

\* The write loop's condition: `for {' in "duration", `for nBytes <= totalData'
\* in the capped revisions.
LoopCondWide(v, nb) == v = "duration" \/ nb <= totalData + DataLen
LoopCond(v, nb) == v = "duration" \/ nb <= totalData

\* The test of the write error in "duration": an *quic.ApplicationError whose
\* ErrorCode is 0 ends the handler silently.
IsGracefulStop(e) == e.type = "ApplicationError" /\ e.code = 0

\* Whether the handler logs the write error e.  The capped revisions log all.
LogsWriteErr(v, e) == IF v = "duration" THEN ~IsGracefulStop(e) ELSE TRUE

\* nBytes is a local of the goroutine: nBytes += uint64(n).
AddBytesShared(nb, c, k) == [d \in Conns |-> nb[d] + k]
AddBytes(nb, c, k) == [nb EXCEPT ![c] = @ + k]

\* Write errors the transport can hand to the handler of c.  The code-0 errors come
\* from this program's receiver: StreamError after its CancelRead(0),
\* ApplicationError after its CloseWithError(0).  The others (a network failure, a
\* peer that aborts with another code) can come at any time.
PossibleWriteErrsPeerUnseen(c) == {AppErr(1), OtherErr}
PossibleWriteErrs(c) ==
    {AppErr(1), OtherErr}
        \cup (IF stopSending[c] THEN {StreamErr(0)} ELSE {})
        \cup (IF connClosed[c] THEN {AppErr(0)} ELSE {})

\* The deferred calls of a returning handler, last deferred first: s.Close() if
\* the stream was opened (defer s.Close() comes after the open), then the
\* "Wrote %d bytes" line (deferred first, at the top of the handler).
DeferredNoClose(hasStream) == <<"Wrote">>
Deferred(hasStream) == IF hasStream THEN <<"Close", "Wrote">> ELSE <<"Wrote">>

\* The handler of c returns with nb in nBytes: its deferred calls run.
HandlerReturns(c, hasStream, nb) ==
    /\ exitTrace' = [exitTrace EXCEPT ![c] = @ \o Deferred(hasStream)]
    /\ loggedTotal' = [loggedTotal EXCEPT ![c] = nb]

\* Where the handler is after a successful Write whose loop condition holds: at
\* s.Write again.  OpenUniStreamSync is before the loop, not in it.
WriteLoopReopens == "open"
WriteLoopBack == "write"

\* conn.OpenUniStreamSync(ctx) returns a stream; defer s.Close(); the loop
\* condition is evaluated for the first time.
SessOpenOk(c) ==
    /\ SrvAlive
    /\ sPc[c] = "open"
    /\ streamOpen' = [streamOpen EXCEPT ![c] = TRUE]
    /\ opened' = [opened EXCEPT ![c] = @ + 1]
    /\ IF LoopCond(variant, nBytes[c])
       THEN /\ sPc' = [sPc EXCEPT ![c] = "write"]
            /\ UNCHANGED <<sWhy, fin, exitTrace, loggedTotal>>
       ELSE /\ sPc' = [sPc EXCEPT ![c] = "ended"]
            /\ sWhy' = [sWhy EXCEPT ![c] = "cap"]
            /\ fin' = [fin EXCEPT ![c] = TRUE]
            /\ HandlerReturns(c, TRUE, nBytes[c])
    /\ UNCHANGED <<variant, auxVars, accepted, bufVars, srvVars, connQ, nBytes, sErr, sErrLogs,
                   streamBytes, stopSending, connClosed, recvVars>>

\* conn.OpenUniStreamSync(ctx) fails (ctx done, connection lost): the error is
\* logged and the handler returns; no stream was opened, so none is closed.
SessOpenErr(c) ==
    /\ SrvAlive
    /\ sPc[c] = "open"
    /\ sPc' = [sPc EXCEPT ![c] = "ended"]
    /\ sWhy' = [sWhy EXCEPT ![c] = "open"]
    /\ sErr' = [sErr EXCEPT ![c] = OtherErr]
    /\ sErrLogs' = [sErrLogs EXCEPT ![c] = @ + 1]
    /\ HandlerReturns(c, FALSE, nBytes[c])
    /\ UNCHANGED <<variant, auxVars, opened, accepted, bufVars, srvVars, connQ, nBytes, wireVars, recvVars>>

\* The slice a handler passes to s.Write, by its length: data[:], all of the
\* array of length len.
WriteSliceTail(len) == len - 1
WriteSlice(len) == len

\* s.Write(data[:]) returns (len(data), nil): nBytes += n, then the loop
\* condition; when it fails the deferred s.Close() runs.
SessWriteOk(c) ==
    /\ SrvAlive
    /\ sPc[c] = "write"
    /\ streamBytes[c] + WriteSlice(DataLen) <= MaxStream
    /\ lastArgLen' = [lastArgLen EXCEPT ![c] = WriteSlice(DataLen)]
    /\ streamBytes' = [streamBytes EXCEPT ![c] = @ + WriteSlice(DataLen)]
    /\ nBytes' = AddBytes(nBytes, c, WriteSlice(DataLen))
    /\ IF LoopCond(variant, nBytes'[c])
       THEN /\ sPc' = [sPc EXCEPT ![c] = WriteLoopBack]
            /\ UNCHANGED <<sWhy, fin, exitTrace, loggedTotal>>
       ELSE /\ sPc' = [sPc EXCEPT ![c] = "ended"]
            /\ sWhy' = [sWhy EXCEPT ![c] = "cap"]
            /\ fin' = [fin EXCEPT ![c] = TRUE]
            /\ HandlerReturns(c, TRUE, nBytes'[c])
    /\ UNCHANGED <<variant, auxVars, opened, accepted, dataFills, srvVars, connQ, sErr, sErrLogs,
                   streamOpen, stopSending, connClosed, recvVars>>

\* s.Write(data[:]) returns (k, err): k bytes went out, err ends the handler
\* before nBytes += n; the deferred s.Close() runs.
SessWriteErr(c, e, k) ==
    /\ SrvAlive
    /\ sPc[c] = "write"
    /\ e \in PossibleWriteErrs(c)
    /\ k < WriteSlice(DataLen)
    /\ streamBytes[c] + k <= MaxStream
    /\ lastArgLen' = [lastArgLen EXCEPT ![c] = WriteSlice(DataLen)]
    /\ streamBytes' = [streamBytes EXCEPT ![c] = @ + k]
    /\ sPc' = [sPc EXCEPT ![c] = "ended"]
    /\ sWhy' = [sWhy EXCEPT ![c] = "write"]
    /\ sErr' = [sErr EXCEPT ![c] = e]
    /\ sErrLogs' = [sErrLogs EXCEPT ![c] = IF LogsWriteErr(variant, e) THEN @ + 1 ELSE @]
    /\ fin' = [fin EXCEPT ![c] = TRUE]
    /\ HandlerReturns(c, TRUE, nBytes[c])
    /\ UNCHANGED <<variant, auxVars, opened, accepted, dataFills, srvVars, connQ, nBytes,
                   streamOpen, stopSending, connClosed, recvVars>>

SessStep(c) ==
    \/ SessOpenOk(c)
    \/ SessOpenErr(c)
    \/ SessWriteOk(c)
    \/ \E e \in WriteErrs, k \in 0..(DataLen - 1) : SessWriteErr(c, e, k)

\* ==================================================== the -b option's parser

\* A -b string is a sequence of characters.  Chars has digits, the decimal
\* point, the four suffix letters and a letter that belongs to no form.
Digits == {"1", "5"}
Suffixes == <<"K", "M", "G", "T">>
Chars == Digits \cup {".", "K", "M", "G", "T", "x"}
DLimits == UNION {[1..k -> Chars] : k \in 0..MaxLen}

DigitVal(ch) == IF ch = "1" THEN 1 ELSE 5

\* The number of digits of l from position i on.
RECURSIVE SpanDigits(_, _)
SpanDigits(l, i) ==
    IF i <= Len(l) /\ l[i] \in Digits THEN 1 + SpanDigits(l, i + 1) ELSE 0

\* The length of the longest prefix of l that is digits, optionally a point
\* and more digits: the token fmt's %f verb takes from the input, and the whole
\* of l when strconv.ParseFloat is to accept it.
FloatToken(l) ==
    LET d == SpanDigits(l, 1)
    IN  IF d + 1 <= Len(l) /\ l[d + 1] = "."
        THEN d + 1 + SpanDigits(l, d + 2)
        ELSE d

\* The first k characters of l hold a digit: strconv.ParseFloat takes them ("1.",
\* ".5" and "1.5" are numbers; "" and "." are not).
IsNumber(l, k) == \E i \in 1..k : l[i] \in Digits

\* The value of the number in the first k characters of l: its digits as an
\* integer (mant) and the count of digits behind the point (frac); the value is
\* mant / 10^frac.
RECURSIVE Mantissa(_, _)
Mantissa(l, k) ==
    IF k = 0 THEN 0
    ELSE IF l[k] = "." THEN Mantissa(l, k - 1)
    ELSE 10 * Mantissa(l, k - 1) + DigitVal(l[k])

Fraction(l, k) ==
    LET d == SpanDigits(l, 1)
    IN  IF d < k THEN k - d - 1 ELSE 0

NumberValue(l, k) == [mant |-> Mantissa(l, k), frac |-> Fraction(l, k)]

\* strconv.ParseFloat(l, 64) returns no error: all of l is one number.
ParseFloatOk(l) == FloatToken(l) = Len(l) /\ IsNumber(l, Len(l))

\* fmt.Sscanf(l, "%f" + suf, &limit) returns no error: %f takes the float token,
\* which must be a number, and the next character of l is suf.  Sscanf does
\* not look at what follows in l.
SscanfOk(l, suf) ==
    LET k == FloatToken(l)
    IN  IsNumber(l, k) /\ k + 1 <= Len(l) /\ l[k + 1] = suf

\* The power of ten in rate.Limit(1.25*1eX*limit/8) of the branch for a suffix
\* (0 for the plain branch).
Exp10(form) ==
    CASE form = "plain" -> 0 [] form = "K" -> 3 [] form = "M" -> 6
      [] form = "G" -> 9 [] form = "T" -> 12

\* rate.Limit(1.25*1eX*limit/8) as an exact fraction:
\* (num / den) * 10^e10 / 10^frac bytes per second.
RateOf(form, v) ==
    [inf |-> FALSE, num |-> 5 * v.mant, den |-> 32, frac |-> v.frac, e10 |-> Exp10(form)]

\* rate.Inf
RateInf == [inf |-> TRUE]

\* rate.NewLimiter(r, b)
NewLimiter(r, b) == [limit |-> r, burst |-> b]

\* The (nil, ...) results of limiterFromString.
NilLimiter == [nil |-> TRUE]

\* limiterFromString(l): the limiter and whether err != nil.  The branches
\* are tried in the order of the code; each returns when its parse has no error.
RECURSIVE TrySuffixes(_, _)
TrySuffixes(l, i) ==
    IF i > Len(Suffixes)
    THEN [lim |-> NilLimiter, err |-> TRUE]
    ELSE IF SscanfOk(l, Suffixes[i])
    THEN [lim |-> NewLimiter(RateOf(Suffixes[i], NumberValue(l, FloatToken(l))),
                             readChunkSize),
          err |-> FALSE]
    ELSE TrySuffixes(l, i + 1)

limiterFromString(l) ==
    IF l = <<>>
    THEN [lim |-> NilLimiter, err |-> FALSE]
    ELSE IF ParseFloatOk(l)
    THEN [lim |-> NewLimiter(RateOf("plain", NumberValue(l, Len(l))), readChunkSize),
          err |-> FALSE]
    ELSE TrySuffixes(l, 1)

\* ============================================================== receiver

\* clientMain returned or the process exited.
RecvOver(c) == rPc[c] \in {"done", "exited", "panicked"}

\* net.SplitHostPort and quic.DialAddr: a failure is glog.Exitf; a successful
\* handshake puts the connection in the listener's queue.
RecvDial(c) ==
    /\ c \in Receivers
    /\ rPc[c] = "start"
    /\ \/ /\ srvPc = "accept"
          /\ connQ' = [connQ EXCEPT ![c] = "queued"]
          /\ rPc' = [rPc EXCEPT ![c] = "acceptStream"]
       \/ /\ rPc' = [rPc EXCEPT ![c] = "exited"]
          /\ UNCHANGED connQ
    /\ UNCHANGED <<variant, auxVars, auditVars, srvVars, sessVars, wireVars, rStream, n,
                   deadline, rExit, rErrLogs, results, reported>>

\* Where clientMain goes after conn.AcceptUniStream: SetReadDeadline in
\* "duration", limiterFromString in "ratelimit".
AfterAcceptStream(v) == IF v = "duration" THEN "setDeadline" ELSE "parseLimit"

\* conn.AcceptUniStream(ctx) returns the stream the sender opened.
RecvAcceptStreamOk(c) ==
    /\ rPc[c] = "acceptStream"
    /\ streamOpen[c]
    /\ rStream' = [rStream EXCEPT ![c] = TRUE]
    /\ accepted' = [accepted EXCEPT ![c] = @ + 1]
    /\ rPc' = [rPc EXCEPT ![c] = AfterAcceptStream(variant)]
    /\ UNCHANGED <<variant, auxVars, opened, exitTrace, loggedTotal, bufVars, srvVars, connQ, sessVars, wireVars, n,
                   deadline, rExit, rErrLogs, results, reported>>

\* conn.AcceptUniStream(ctx) fails: glog.Exitf in "duration"; glog.Errorf in
\* "ratelimit", which goes on with s == nil.
RecvAcceptStreamErr(c) ==
    /\ rPc[c] = "acceptStream"
    /\ rPc' = [rPc EXCEPT ![c] = IF variant = "duration" THEN "exited"
                                 ELSE AfterAcceptStream(variant)]
    /\ UNCHANGED <<variant, auxVars, auditVars, srvVars, connQ, sessVars, wireVars, rStream, n,
                   deadline, rExit, rErrLogs, results, reported>>

\* "duration": s.SetReadDeadline(now + durationInSecs) once, before the loop;
\* an error is glog.Exitf.
ReadDeadlineUnset == "unset"
ReadDeadlineSet == "set"

RecvSetDeadline(c) ==
    /\ rPc[c] = "setDeadline"
    /\ \/ /\ deadline' = [deadline EXCEPT ![c] = ReadDeadlineSet]
          /\ rPc' = [rPc EXCEPT ![c] = "loop"]
       \/ /\ rPc' = [rPc EXCEPT ![c] = "exited"]
          /\ UNCHANGED deadline
    /\ UNCHANGED <<variant, auxVars, auditVars, srvVars, connQ, sessVars, wireVars, rStream, n,
                   rExit, rErrLogs, results, reported>>

\* The wall clock reaches the read deadline.
DeadlineExpires(c) ==
    /\ deadline[c] = "set"
    /\ ~RecvOver(c)
    /\ deadline' = [deadline EXCEPT ![c] = "passed"]
    /\ UNCHANGED <<variant, auxVars, auditVars, srvVars, connQ, sessVars, wireVars, rPc, rStream, n,
                   rExit, rErrLogs, results, reported>>

\* Whether limiterFromString(*dLimit) returns an error, over the values of the
\* -b option.
ParseErrs == {limiterFromString(l).err : l \in DLimits}

\* "ratelimit": limiterFromString(*dLimit), for any value of the -b option; a
\* parse error is glog.Exitf.
RecvParseLimit(c) ==
    /\ rPc[c] = "parseLimit"
    /\ \E bad \in ParseErrs :
        IF bad
        THEN /\ rPc' = [rPc EXCEPT ![c] = "exited"]
             /\ rExit' = [rExit EXCEPT ![c] = "parse"]
        ELSE /\ rPc' = [rPc EXCEPT ![c] = "loop"]
             /\ UNCHANGED rExit
    /\ UNCHANGED <<variant, auxVars, auditVars, srvVars, connQ, sessVars, wireVars, rStream, n,
                   deadline, rErrLogs, results, reported>>

\* The deferred calls of "duration"'s clientMain in the order they run when it
\* returns, last deferred first: s.CancelRead (deferred after AcceptUniStream),
\* then conn.CloseWithError (deferred after the dial).
ClientDeferredInOrder == <<"closeConn", "cancelRead">>
ClientDeferred == <<"cancelRead", "closeConn">>

\* Where clientMain is after the deferred call pc has run.
AfterDeferred(pc) == IF pc = ClientDeferred[1] THEN ClientDeferred[2] ELSE "done"

\* Where clientMain goes when the top of its loop sees ctx done: `return' to the
\* deferred calls in "duration", glog.Exitf in "ratelimit".
OnCancelReadsOn(v) == "read"
OnCancel(v) == IF v = "duration" THEN ClientDeferred[1] ELSE "exited"

\* Top of the loop; cancelled says whether the caller of clientMain has
\* cancelled ctx by now.  "duration": the non-blocking select on ctx.Done(), which
\* returns from clientMain (the deferred CancelRead and CloseWithError run, the
\* Printf is not reached).  "ratelimit": limiter.WaitN(ctx, len(discard)), whose
\* error (ctx done) is glog.Exitf.
RecvLoopTop(c, cancelled) ==
    /\ rPc[c] = "loop"
    /\ IF cancelled
       THEN /\ rPc' = [rPc EXCEPT ![c] = OnCancel(variant)]
            /\ rExit' = [rExit EXCEPT ![c] = "cancel"]
       ELSE /\ rPc' = [rPc EXCEPT ![c] = "read"]
            /\ UNCHANGED rExit
    /\ UNCHANGED <<variant, auxVars, auditVars, srvVars, connQ, sessVars, wireVars, rStream, n,
                   deadline, rErrLogs, results, reported>>

\* Bytes on the stream the receiver has not read yet.
Avail(c) == streamBytes[c] - n[c]

Min(a, b) == IF a < b THEN a ELSE b

\* What s.Read(discard[:]) can return for connection c: i bytes and err ("nil"
\* or one of ReadErrs).  It delivers only bytes the sender wrote; without an
\* error it delivers at least one; io.EOF comes once the sender closed the stream
\* and the last byte is delivered; the deadline error comes once the deadline
\* has passed, after which no read succeeds; any other error can come at any time.
CanRead(c, i, err) ==
    /\ i <= Min(readChunkSize, Avail(c))
    /\ CASE err = "nil" -> i >= 1 /\ deadline[c] # "passed"
         [] err = "EOF" -> fin[c] /\ i = Avail(c)
         [] err = "timeout" -> deadline[c] = "passed"
         [] OTHER -> TRUE

\* n += uint64(i), before err is looked at.
RecvAddChunk(k, i) == k + readChunkSize
RecvAdd(k, i) == k + i

\* Read errors that end the loop with `break' and no log line: io.EOF, and in
\* "duration" a net.Error whose Timeout() is true.
SilentReadErr(v, err) == err = "EOF" \/ (v = "duration" /\ err = "timeout")

\* Read errors that are glog.Exitf: every error but io.EOF in "ratelimit".
FatalReadErr(v, err) == v # "duration" /\ err # "EOF"

\* s.Read(discard[:]); n += uint64(i); then the error is looked at.
\* With s == nil ("ratelimit" after a failed AcceptUniStream) the call panics.
RecvRead(c, i, err) ==
    /\ rPc[c] = "read"
    /\ IF ~rStream[c]
       THEN /\ i = 0 /\ err = "other"
            /\ rPc' = [rPc EXCEPT ![c] = "panicked"]
            /\ UNCHANGED <<n, rExit, rErrLogs>>
       ELSE /\ CanRead(c, i, err)
            /\ n' = [n EXCEPT ![c] = RecvAdd(@, i)]
            /\ IF err = "nil"
               THEN /\ rPc' = [rPc EXCEPT ![c] = "loop"]
                    /\ UNCHANGED <<rExit, rErrLogs>>
               ELSE /\ rExit' = [rExit EXCEPT ![c] =
                            CASE err = "EOF" -> "eof"
                              [] err = "timeout" /\ variant = "duration" -> "timeout"
                              [] OTHER -> "error"]
                    /\ rErrLogs' = [rErrLogs EXCEPT ![c] =
                            IF SilentReadErr(variant, err) THEN @ ELSE @ + 1]
                    /\ rPc' = [rPc EXCEPT ![c] =
                            IF FatalReadErr(variant, err) THEN "exited" ELSE "report"]
    /\ UNCHANGED <<variant, auxVars, auditVars, srvVars, connQ, sessVars, wireVars, rStream,
                   deadline, results, reported>>

\* After the loop: time.Since(start) and the Printf of the Result.  "duration"
\* then runs its deferred calls; "ratelimit" has none and returns.
RecvReport(c) ==
    /\ rPc[c] = "report"
    /\ results' = [results EXCEPT ![c] = @ + 1]
    /\ reported' = [reported EXCEPT ![c] = n[c]]
    /\ rPc' = [rPc EXCEPT ![c] = IF variant = "duration" THEN ClientDeferred[1] ELSE "done"]
    /\ UNCHANGED <<variant, auxVars, auditVars, srvVars, connQ, sessVars, wireVars, rStream, n,
                   deadline, rExit, rErrLogs>>

\* deferred s.CancelRead(quic.StreamErrorCode(quic.NoError))
RecvCancelRead(c) ==
    /\ rPc[c] = "cancelRead"
    /\ stopSending' = [stopSending EXCEPT ![c] = TRUE]
    /\ rPc' = [rPc EXCEPT ![c] = AfterDeferred("cancelRead")]
    /\ UNCHANGED <<variant, auxVars, auditVars, srvVars, connQ, sessVars, streamOpen, streamBytes, fin,
                   connClosed, rStream, n, deadline, rExit, rErrLogs,
                   results, reported>>

\* deferred conn.CloseWithError(quic.ApplicationErrorCode(quic.NoError), "done")
RecvCloseConn(c) ==
    /\ rPc[c] = "closeConn"
    /\ connClosed' = [connClosed EXCEPT ![c] = TRUE]
    /\ rPc' = [rPc EXCEPT ![c] = AfterDeferred("closeConn")]
    /\ UNCHANGED <<variant, auxVars, auditVars, srvVars, connQ, sessVars, streamOpen, streamBytes, fin,
                   stopSending, rStream, n, deadline, rExit, rErrLogs,
                   results, reported>>

\* The steps of clientMain that neither block nor fail.
RecvProgress(c) ==
    \/ RecvLoopTop(c, FALSE)
    \/ \E i \in 0..readChunkSize, err \in ({"nil"} \cup ReadErrs) \ {"other"} :
            RecvRead(c, i, err)
    \/ RecvReport(c)
    \/ RecvCancelRead(c)
    \/ RecvCloseConn(c)

RecvStep(c) ==
    \/ RecvDial(c)
    \/ RecvAcceptStreamOk(c)
    \/ RecvAcceptStreamErr(c)
    \/ RecvSetDeadline(c)
    \/ RecvParseLimit(c)
    \/ RecvProgress(c)
    \/ RecvLoopTop(c, TRUE)
    \/ \E i \in 0..readChunkSize : RecvRead(c, i, "other")

\* A client that is not in Receivers completes the handshake and stalls.
StalledPeerDial(c) ==
    /\ c \notin Receivers
    /\ rPc[c] = "start"
    /\ srvPc = "accept"
    /\ connQ' = [connQ EXCEPT ![c] = "queued"]
    /\ rPc' = [rPc EXCEPT ![c] = "stalled"]
    /\ UNCHANGED <<variant, auxVars, auditVars, srvVars, sessVars, wireVars, rStream, n,
                   deadline, rExit, rErrLogs, results, reported>>

\* ================================================================ system

Next ==
    \/ SrvStart
    \/ SrvCancel
    \/ SrvAcceptErr
    \/ \E c \in Conns : SrvAccept(c)
    \/ \E c \in Conns : SessStep(c)
    \/ \E c \in Conns : RecvStep(c)
    \/ \E c \in Conns : DeadlineExpires(c)
    \/ \E c \in Conns : StalledPeerDial(c)

Spec == Init /\ [][Next]_vars

\* Fairness of the receiver: clientMain is one sequential goroutine, so a step of
\* it that is not blocked is eventually taken, and the wall clock advances.
\* Nothing is assumed of the sender, of the network or of failures.
LiveSpec ==
    /\ Init
    /\ [][Next]_vars
    /\ \A c \in Receivers : WF_vars(RecvProgress(c)) /\ WF_vars(DeadlineExpires(c))

\* The steps of the handler of c that the transport lets happen: a Write the
\* flow-control window has room for returns, and a Write on a stream whose
\* receiver cancelled reading or closed the connection returns that error.
SessProgress(c) ==
    \/ SessWriteOk(c)
    \/ \E e \in {StreamErr(0), AppErr(0)}, k \in 0..(DataLen - 1) : SessWriteErr(c, e, k)

\* Fairness of the handlers: a handler goroutine whose Write can return is
\* eventually run.  Nothing is assumed of the receiver, and no failure of the
\* network is assumed to come.
SenderLiveSpec ==
    /\ Init
    /\ [][Next]_vars
    /\ \A c \in Conns : WF_vars(SessProgress(c))

\* --------------------------------------------- limiterFromString on its own

\* Any -b string; no call made yet.
ParseInit ==
    /\ variant = "ratelimit"
    /\ ProgramStart
    /\ dLimit \in DLimits
    /\ ParseIdle
    /\ LimIdle
    /\ repN = 0 /\ repDur = 0 /\ RepIdle

\* limiterFromString(*dLimit) is called.
ParseCall ==
    /\ parsePc = "none"
    /\ parsePc' = "once"
    /\ userLimiter' = limiterFromString(dLimit)
    /\ UNCHANGED <<mainVars, limVars, repVars, dLimit, userLimiter2>>

\* limiterFromString(*dLimit) is called a second time.
ParseCallAgain ==
    /\ parsePc = "once"
    /\ parsePc' = "twice"
    /\ userLimiter2' = limiterFromString(dLimit)
    /\ UNCHANGED <<mainVars, limVars, repVars, dLimit, userLimiter>>

ParseNext == ParseCall \/ ParseCallAgain

ParseSpec == ParseInit /\ [][ParseNext]_vars

\* ------------------------------------ the limited read loop on its own clock

\* A finite rate.Limit on the model's clock: one token every p ticks.
TickRate(p) == [inf |-> FALSE, period |-> p]

\* The -b values followed on the clock: none, and one with a form.
LimStrings == {<<>>, <<"1", "K">>}

LimInit ==
    /\ variant = "ratelimit"
    /\ ProgramStart
    /\ dLimit \in LimStrings
    /\ ParseIdle
    /\ LimIdle
    /\ repN = 0 /\ repDur = 0 /\ RepIdle

\* limiter := rate.NewLimiter(rate.Inf, 0); a non-nil userLimiter replaces it.
\* The tick of the clock is chosen so that the user's rate is one token every
\* p ticks.  A new limiter's bucket is full.  Then start := time.Now().
LimSetup ==
    /\ lPc = "setup"
    /\ LET u == limiterFromString(dLimit)
       IN  /\ ~u.err
           /\ IF u.lim = NilLimiter
              THEN /\ limiter' = NewLimiter(RateInf, 0)
                   /\ credit' = 0
              ELSE \E p \in 1..MaxPeriod :
                      /\ limiter' = NewLimiter(TickRate(p), u.lim.burst)
                      /\ credit' = u.lim.burst * p
    /\ lPc' = "waitN"
    /\ UNCHANGED <<mainVars, parseVars, repVars, last, now, wakeAt, lN, lExit>>

\* The tokens clientMain asks for before a read of a buffer of chunk bytes:
\* len(discard).
WaitTokensOneLess(chunk) == chunk - 1
WaitTokens(chunk) == chunk

\* WaitN's first test: `n > burst && limit != Inf' is an error.
ExceedsBurstAnyLimit(lim, k) == k > lim.burst
ExceedsBurst(lim, k) == k > lim.burst /\ ~lim.limit.inf

Max(a, b) == IF a > b THEN a ELSE b

\* The bucket of lim at time t, in ticks' worth: what it held at `last' plus
\* the time gone by, at most burst tokens.
Advance(lim, cr, la, t) == Min(lim.burst * lim.limit.period, cr + (t - la))

\* err = limiter.WaitN(ctx, len(discard)).  An error (more tokens than the
\* burst of a finite limiter, ctx done) is glog.Exitf.  An infinite limiter
\* returns at once.  A finite one takes the tokens from the bucket, which may go
\* below zero, and sleeps until the bucket is back at zero.
LimWaitN(cancelled) ==
    /\ lPc = "waitN"
    /\ LET k == WaitTokens(readChunkSize)
       IN  IF ExceedsBurst(limiter, k)
           THEN /\ lPc' = "exited"
                /\ lExit' = "burst"
                /\ UNCHANGED <<credit, last, wakeAt>>
           ELSE IF cancelled
           THEN /\ lPc' = "exited"
                /\ lExit' = "ctx"
                /\ UNCHANGED <<credit, last, wakeAt>>
           ELSE IF limiter.limit.inf
           THEN /\ lPc' = "read"
                /\ UNCHANGED <<credit, last, wakeAt, lExit>>
           ELSE LET cr == Advance(limiter, credit, last, now) - k * limiter.limit.period
                IN  /\ credit' = cr
                    /\ last' = now
                    /\ wakeAt' = now + Max(0, -cr)
                    /\ lPc' = IF cr < 0 THEN "sleep" ELSE "read"
                    /\ UNCHANGED lExit
    /\ UNCHANGED <<mainVars, parseVars, repVars, limiter, now, lN>>

\* The timer of the sleeping WaitN has fired.
LimWake ==
    /\ lPc = "sleep"
    /\ now >= wakeAt
    /\ lPc' = "read"
    /\ UNCHANGED <<mainVars, parseVars, repVars, limiter, credit, last, now, wakeAt, lN, lExit>>

\* i, err := s.Read(discard[:]); n += uint64(i); io.EOF leaves the loop.
LimRead(i, eof) ==
    /\ lPc = "read"
    /\ lN + i <= MaxStream
    /\ lN' = RecvAdd(lN, i)
    /\ IF eof
       THEN lPc' = "done" /\ lExit' = "eof"
       ELSE lPc' = "waitN" /\ UNCHANGED lExit
    /\ UNCHANGED <<mainVars, parseVars, repVars, limiter, credit, last, now, wakeAt>>

\* The clock ticks.
LimTick ==
    /\ lPc \in {"waitN", "sleep", "read"}
    /\ now < MaxTime
    /\ now' = now + 1
    /\ UNCHANGED <<mainVars, parseVars, repVars, lPc, limiter, credit, last, wakeAt, lN, lExit>>

LimNext ==
    \/ LimSetup
    \/ \E cancelled \in BOOLEAN : LimWaitN(cancelled)
    \/ LimWake
    \/ \E i \in 0..readChunkSize, eof \in BOOLEAN : LimRead(i, eof)
    \/ LimTick

LimSpec == LimInit /\ [][LimNext]_vars

\* ------------------------------------------------- the report on its own

\* ((float64(n)/1e3)*8)/float64(durS) with durS = float64(dur)/1e9, for dur of
\* ms milliseconds: the quotient 8n/1e3 over ms/1e3, with the 1e3 cancelled.
\* float64 division by zero does not panic: x/0 is +Inf for x > 0 and 0/0 is NaN.
ThroughputIntDiv(nb, ms) ==
    IF ms = 0 THEN [kind |-> "panic"]
    ELSE [kind |-> "number", num |-> 8 * nb, den |-> ms]
Throughput(nb, ms) ==
    IF ms = 0
    THEN (IF nb = 0 THEN [kind |-> "NaN"] ELSE [kind |-> "+Inf"])
    ELSE [kind |-> "number", num |-> 8 * nb, den |-> ms]

\* The byte counts and durations given to the report.
RepBytes == 0..MaxRepBytes \cup {125000}
RepMillis == 0..MaxRepMillis \cup {1000}

RepInit ==
    /\ variant = "duration"
    /\ ProgramStart
    /\ dLimit = <<>>
    /\ ParseIdle
    /\ LimIdle
    /\ repN \in RepBytes
    /\ repDur \in RepMillis
    /\ RepIdle

\* dur := time.Since(start); fmt.Printf("Received: ...").
RepPrint ==
    /\ repPc = "compute"
    /\ repRate' = Throughput(repN, repDur)
    /\ repPc' = IF repRate'.kind = "panic" THEN "panicked" ELSE "printed"
    /\ UNCHANGED <<mainVars, parseVars, limVars, repN, repDur>>

RepNext == RepPrint

RepSpec == RepInit /\ [][RepNext]_vars

\* ================================================================ claims

\* The handler of c was ended by a failed Write.
EndedByWriteErr(c) == sPc[c] = "ended" /\ sWhy[c] = "write"

\* The peer aborted with code 0: the stream (CancelRead(0), surfacing as a
\* StreamError) or the connection (CloseWithError(0), an ApplicationError).
PeerAbortCode0(e) == e.code = 0 /\ e.type \in {"StreamError", "ApplicationError"}

\* C1: in a "duration" sender session, a write that fails because the peer
\* aborted with application error code 0 ends the session with no error logged;
\* a write that fails with any other error ends it with the error logged.
C1_StopCode0NotLogged ==
    \A c \in Conns :
        (variant = "duration" /\ EndedByWriteErr(c)) =>
            IF PeerAbortCode0(sErr[c]) THEN sErrLogs[c] = 0 ELSE sErrLogs[c] = 1

\* C2: the receiver's byte counter never exceeds the bytes the sender put on the
\* connection's stream, and no step decreases it.
C2_ReceivedAtMostWritten ==
    /\ [](\A c \in Conns : n[c] <= streamBytes[c])
    /\ [][\A c \in Conns : n'[c] >= n[c]]_vars

\* C2 witness: the receiver has read bytes, all the sender wrote, and its loop is over.
C2_Witness ==
    \E c \in Receivers : n[c] > 0 /\ n[c] = streamBytes[c] /\ rExit[c] = "eof"

\* C3: a "duration" receiver session whose read loop has ended, by whichever
\* condition, and which has terminated has printed exactly one Result.
C3_OneResultPerSession ==
    \A c \in Receivers :
        /\ results[c] <= 1
        /\ (variant = "duration" /\ rStream[c] /\ rExit[c] # "none" /\ rPc[c] = "done")
               => results[c] = 1

\* C4: in every revision, a read loop ended by end-of-stream or a timeout logged
\* no error, a read loop ended by any other read error logged it, and in both
\* cases the receiver, once over, has printed the Result with the bytes read.
C4_ReadErrorsStillReport ==
    \A c \in Receivers :
        (RecvOver(c) /\ rExit[c] \in {"eof", "timeout", "error"}) =>
            /\ rErrLogs[c] = (IF rExit[c] = "error" THEN 1 ELSE 0)
            /\ results[c] = 1
            /\ reported[c] = n[c]

\* The receiver of c is in its read loop.
InReadLoop(c) == rPc[c] \in {"loop", "read"}

\* C5: a "duration" receiver is in its read loop only with the read deadline
\* set; it always leaves the loop, whatever the sender does; and when the
\* deadline ended the loop the Result is printed.
C5_DeadlineEndsLoop ==
    \A c \in Receivers :
        /\ []((variant = "duration" /\ InReadLoop(c)) => deadline[c] # "unset")
        /\ (variant = "duration" /\ InReadLoop(c)) ~> ~InReadLoop(c)
        /\ (rExit[c] = "timeout") ~> (results[c] = 1 /\ reported[c] = n[c])

\* C5 witness: the deadline ended the loop while the sender was still in its
\* write loop, and a non-zero byte count was reported.
C5_Witness ==
    \E c \in Receivers :
        /\ variant = "duration" /\ rExit[c] = "timeout"
        /\ results[c] = 1 /\ reported[c] > 0 /\ sPc[c] = "write"

\* C6: in a capped sender session no write is issued once the byte counter has
\* reached the cap.
C6_NoWriteAtCap ==
    \A c \in Conns :
        (variant # "duration" /\ sPc[c] = "write") => nBytes[c] < totalData

\* C7: a capped sender session never counts more than the cap plus one payload
\* buffer, and when the cap ends it the counter is at least the cap.
C7_CapOvershootBounded ==
    \A c \in Conns :
        variant # "duration" =>
            /\ nBytes[c] <= totalData + DataLen
            /\ (sPc[c] = "ended" /\ sWhy[c] = "cap") => nBytes[c] >= totalData

\* C7 witness: a session ended by the cap.
C7_Witness ==
    \E c \in Conns : variant # "duration" /\ sPc[c] = "ended" /\ sWhy[c] = "cap"

\* The handler of c is blocked: in OpenUniStreamSync, or in a Write that flow
\* control holds back.
Blocked(c) ==
    \/ sPc[c] = "open"
    \/ sPc[c] = "write" /\ streamBytes[c] + DataLen > MaxStream

\* C8: whatever the handlers are doing, the accept loop can accept a connection
\* that is waiting in the listener's queue.
C8_AcceptNeverBlocked ==
    \A c \in Conns :
        (srvPc = "accept" /\ connQ[c] = "queued") => ENABLED SrvAccept(c)

\* C8 witness: a handler is blocked in a write that flow control holds back,
\* another connection waits in the queue, and the accept loop can take it.
C8_Witness ==
    \E c, d \in Conns :
        /\ c # d
        /\ sPc[c] = "write" /\ Blocked(c)
        /\ connQ[d] = "queued"
        /\ ENABLED SrvAccept(d)

\* C9: a step of the handler of c leaves the accept loop where it is and changes
\* neither the byte counter nor the status of any other handler; a failed open
\* or write ends the handler of c.
C9_SessionsIndependent ==
    [][\A c \in Conns :
          /\ SessStep(c) =>
                /\ srvPc' = srvPc
                /\ \A d \in Conns \ {c} :
                      /\ nBytes'[d] = nBytes[d]
                      /\ sPc'[d] = sPc[d]
                      /\ sWhy'[d] = sWhy[d]
          /\ (SessOpenErr(c) \/ \E e \in WriteErrs, k \in 0..(DataLen - 1) :
                                    SessWriteErr(c, e, k))
                => sPc'[c] = "ended" /\ srvPc' = "accept"]_vars

\* C9 witness: one handler was ended by a write error, the other is still
\* writing with bytes counted, and the accept loop runs.
C9_Witness ==
    \E c, d \in Conns :
        /\ c # d
        /\ EndedByWriteErr(c) /\ sErrLogs[c] = 1
        /\ sPc[d] = "write" /\ nBytes[d] > 0
        /\ srvPc = "accept"

\* C10: once l.Accept has returned the cancellation error, serverMain has left
\* the accept loop.
C10_CancelEndsAcceptLoop ==
    (ctxDone /\ acceptErrs >= 1) => srvPc # "accept"

\* C11: the process started with -s never runs clientMain: main reaches
\* clientMain only after serverMain returns.
C11_SenderNeverRunsClient ==
    srvPc \in {"start", "accept", "exited"}

\* C11 witness: l.Accept has failed and serverMain is still in its accept loop.
C11_Witness ==
    acceptErrs >= 1 /\ srvPc = "accept"

\* C12: a connection carries at most one unidirectional stream; the sender opens
\* it after accepting the connection, the receiver accepts no stream the sender
\* did not open, and only the sender's Write puts bytes on it: a step that
\* adds bytes to the stream is a step of the handler at s.Write and leaves the
\* receiver where it is.
C12_OneStreamSenderWrites ==
    /\ [](\A c \in Conns :
            /\ opened[c] <= 1
            /\ accepted[c] <= opened[c]
            /\ (opened[c] > 0 => connQ[c] = "accepted"))
    /\ [][\A c \in Conns :
            streamBytes'[c] # streamBytes[c] =>
                /\ sPc[c] = "write"
                /\ streamBytes'[c] > streamBytes[c]
                /\ UNCHANGED recvVars]_vars

\* C12 witness: the stream was opened and accepted once, bytes went over it and
\* the handler is still writing.
C12_Witness ==
    \E c \in Receivers :
        /\ opened[c] = 1 /\ accepted[c] = 1
        /\ n[c] > 0 /\ sPc[c] = "write" /\ nBytes[c] >= DataLen

\* C13: the sender's counter reflects every byte its writes moved: when the
\* handler has ended, nBytes and the total it logged equal the bytes its Write
\* calls put on the stream, also the bytes of a Write that returned an error.
C13_CounterHasEveryByte ==
    \A c \in Conns :
        sPc[c] = "ended" => nBytes[c] = streamBytes[c] /\ loggedTotal[c] = streamBytes[c]

\* The forms of a -b string in the order they are tried, and the power of ten of
\* each form's multiplier.
C14_Forms == <<"plain", "K", "M", "G", "T">>
C14_Exp == [plain |-> 0, K |-> 3, M |-> 6, G |-> 9, T |-> 12]

\* l has the form f: a number, or a number with the single suffix letter of f
\* right behind it.
C14_HasForm(l, f) ==
    LET k == FloatToken(l)
    IN  /\ IsNumber(l, k)
        /\ IF f = "plain" THEN k = Len(l) ELSE k + 1 = Len(l) /\ l[Len(l)] = f

\* C14: for a non-empty -b string the parser returns, for the first form in
\* the order plain, K, M, G, T that the string has, a limiter with rate
\* 1.25 * multiplier * v / 8 and burst readChunkSize; for a string that has none
\* of the forms it returns an error and no limiter; a second call returns the
\* same as the first.
C14_ParserFollowsForms ==
    (parsePc # "none" /\ dLimit # <<>>) =>
        LET l == dLimit
            matching == {i \in 1..Len(C14_Forms) : C14_HasForm(l, C14_Forms[i])}
            v == NumberValue(l, FloatToken(l))
            r == userLimiter.lim.limit
        IN  /\ IF matching = {}
               THEN userLimiter.err /\ userLimiter.lim = NilLimiter
               ELSE LET i == CHOOSE j \in matching : \A m \in matching : j <= m
                    IN  /\ ~userLimiter.err
                        /\ userLimiter.lim.burst = readChunkSize
                        /\ ~r.inf
                        /\ r.num * 8 * 100 = 125 * v.mant * r.den
                        /\ r.frac = v.frac
                        /\ r.e10 = C14_Exp[C14_Forms[i]]
            /\ (parsePc = "twice" => userLimiter2 = userLimiter)

\* C15: a receiver that exits on a malformed -b string has not dialled: the
\* listener never saw its connection, no handler was started for it, it
\* accepted no stream and read no byte.
C15_BadLimitBeforeDial ==
    \A c \in Receivers :
        rExit[c] = "parse" =>
            /\ connQ[c] = "none" /\ sPc[c] = "none"
            /\ accepted[c] = 0
            /\ n[c] = 0

\* C16: with a finite limiter, at every moment clientMain's n is at most
\* rate * elapsed + one burst (n * period <= elapsed + burst * period on the
\* model's clock), also after reads that returned less than the chunk.
C16_RateBoundsCounter ==
    (lPc # "setup" /\ ~limiter.limit.inf) =>
        /\ limiter.burst = readChunkSize
        /\ lN * limiter.limit.period <= now + limiter.burst * limiter.limit.period

\* C16 witness: a limited receiver has slept in WaitN, has read a short chunk and
\* later reached a count above one burst.
C16_Witness ==
    /\ ~limiter.limit.inf /\ lPc = "read"
    /\ wakeAt > 0 /\ now >= wakeAt
    /\ lN > readChunkSize /\ lN % readChunkSize # 0

\* C17: with an empty -b string the limiter has infinite rate and burst 0, fewer
\* than the tokens asked for before each read; WaitN never sleeps and never
\* fails for want of burst (it returns an error only when ctx is done).
C17_UnlimitedNeverWaits ==
    (dLimit = <<>> /\ lPc # "setup") =>
        /\ limiter.limit.inf
        /\ limiter.burst = 0
        /\ WaitTokens(readChunkSize) > limiter.burst
        /\ lPc # "sleep"
        /\ lExit \in {"none", "eof", "ctx"}

\* C17 witness: the unlimited receiver has been through WaitN several times and
\* read more than two chunks before the clock ticked once.
C17_Witness ==
    /\ dLimit = <<>> /\ lPc = "waitN"
    /\ lN > 2 * readChunkSize
    /\ now = 0

\* C18: the report never faults; for a positive duration the printed rate times
\* the seconds is (n / 1000) * 8 (so 125000 bytes in 1.000 s print 1000 Kbits/s);
\* for a zero duration the rate printed is +Inf, or NaN when n is 0.
C18_ReportNeverFaults ==
    /\ repPc # "panicked"
    /\ repPc = "printed" =>
        /\ repDur > 0 =>
            /\ repRate.kind = "number"
            /\ repRate.num * repDur = 8 * repN * repRate.den
            /\ (repN = 125000 /\ repDur = 1000) => repRate.num = 1000 * repRate.den
        /\ repDur = 0 => repRate.kind = (IF repN = 0 THEN "NaN" ELSE "+Inf")

\* C18 witness: the report for no bytes in no time has been printed.
C18_Witness ==
    repPc = "printed" /\ repDur = 0 /\ repN = 0 /\ repRate.kind = "NaN"

\* C19: a handler that has returned after opening its stream has closed it
\* once and then logged its total once; one whose open failed has logged a
\* total of 0 and closed nothing; the total logged is nBytes; a handler that has
\* not returned has done neither.
C19_CloseOnceThenTotalOnce ==
    \A c \in Conns :
        IF sPc[c] = "ended"
        THEN /\ loggedTotal[c] = nBytes[c]
             /\ IF opened[c] > 0
                THEN exitTrace[c] = <<"Close", "Wrote">> /\ fin[c]
                ELSE exitTrace[c] = <<"Wrote">> /\ loggedTotal[c] = 0 /\ ~fin[c]
        ELSE exitTrace[c] = <<>> /\ loggedTotal[c] = -1

\* C19 witness: one handler has returned from a failed Write after counting
\* bytes, another from a failed open.
C19_Witness ==
    \E c, d \in Conns :
        /\ EndedByWriteErr(c) /\ nBytes[c] > 0 /\ exitTrace[c] = <<"Close", "Wrote">>
        /\ sPc[d] = "ended" /\ sWhy[d] = "open" /\ exitTrace[d] = <<"Wrote">>

\* C20: the receiver reads only after the check at the top of the loop, and once
\* that check has seen the cancellation it never reads again and n stays as
\* it is.
C20_NoReadAfterCancel ==
    [][\A c \in Receivers :
        /\ rExit[c] = "cancel" => n'[c] = n[c] /\ rPc'[c] \notin {"loop", "read"}
        /\ n'[c] # n[c] => rPc[c] = "read"
        /\ (rPc'[c] = "read" /\ rPc[c] # "read") => rPc[c] = "loop"]_vars

\* C20 witness: the cancellation was seen after some reads, with unread bytes
\* left on the stream, and clientMain has returned.
C20_Witness ==
    \E c \in Receivers :
        /\ variant = "duration" /\ rExit[c] = "cancel" /\ rPc[c] = "done"
        /\ n[c] > 0 /\ Avail(c) > 0

\* The read loop of c ended by end-of-stream, by the deadline or by a logged
\* read error.
C21_LoopBroken(c) == rExit[c] \in {"eof", "timeout", "error"}

\* C21: the receiver closes its connection (code 0) only after it has aborted
\* the read side of the stream (code 0); when its loop ended by end-of-stream,
\* deadline or logged read error, the Result was printed before either; and a
\* clientMain with the deferred calls that has returned has done both.
C21_AbortThenClose ==
    \A c \in Receivers :
        /\ connClosed[c] => stopSending[c]
        /\ (C21_LoopBroken(c) /\ (stopSending[c] \/ connClosed[c])) => results[c] = 1
        /\ (variant = "duration" /\ rPc[c] = "done") => stopSending[c] /\ connClosed[c]

\* C21 witness: after a deadline the Result is printed and the read side is
\* aborted, the connection not yet closed.
C21_Witness ==
    \E c \in Receivers :
        /\ rExit[c] = "timeout" /\ results[c] = 1
        /\ stopSending[c] /\ ~connClosed[c] /\ rPc[c] = "closeConn"

\* C22: the payload buffer is filled once, before the listener accepts; no
\* step of the accept loop or of a handler fills it again, and every Write of
\* every handler is given the whole buffer.
C22_BufferFilledOnce ==
    /\ [](/\ dataFills <= 1
          /\ srvPc = "accept" => dataFills = 1
          /\ \A c \in Conns : lastArgLen[c] \in {0, DataLen}
          /\ \A c \in Conns : streamBytes[c] > 0 => lastArgLen[c] = DataLen)
    /\ [][srvPc # "start" => dataFills' = dataFills]_vars

\* C22 witness: two handlers have each written the buffer at least once and are
\* still writing.
C22_Witness ==
    /\ dataFills = 1
    /\ \A c \in Conns : sPc[c] = "write" /\ nBytes[c] >= DataLen /\ lastArgLen[c] = DataLen

\* C23: once the receiver of c has aborted the read side of its stream and
\* closed its connection, the handler of c ends: it does not stay in its write
\* loop for ever, with or without the byte cap.
C23_SenderEndsAfterReceiver ==
    \A c \in Receivers :
        (stopSending[c] /\ connClosed[c]) ~> (sPc[c] = "ended")

\* C23 witness: in the revision without the cap the receiver is gone and the
\* handler has ended on the error of the closed connection.
C23_Witness ==
    \E c \in Receivers :
        /\ variant = "duration" /\ rPc[c] = "done"
        /\ stopSending[c] /\ connClosed[c]
        /\ EndedByWriteErr(c) /\ sErr[c] = AppErr(0) /\ nBytes[c] > totalData

\* C24: a receiver that holds no stream is never in its read loop, never calls
\* Read and sets no deadline.
C24_NoReadWithoutStream ==
    \A c \in Receivers :
        ~rStream[c] =>
            /\ rPc[c] \notin {"loop", "read", "panicked"}
            /\ deadline[c] = "unset"
            /\ n[c] = 0

====
